---------------------------- MODULE Spec2Model ----------------------------
(***************************************************************************)
(* IEI WT61P803 PUZZLE MCU hwmon driver                                    *)
(* (drivers/hwmon/iei-wt61p803-puzzle-hwmon.c).                            *)
(*                                                                         *)
(* The model has one device context (struct iei_wt61p803_puzzle_hwmon),    *)
(* the probe routine that builds it, and a set of kernel threads that      *)
(* enter the driver through the hwmon callbacks (read / write) and the     *)
(* thermal cooling-device callbacks (get_max_state / get_cur_state /       *)
(* set_cur_state).  The MCU and its bus transport                          *)
(* (iei_wt61p803_puzzle_write_command) are the environment.                *)
(*                                                                         *)
(* C arrays are modelled as sequences; At(s, i) reads C index i.           *)
(***************************************************************************)
EXTENDS Integers, Sequences, FiniteSets, TLC

\* ------------------------------------------------------------ bounds
\* Number of kernel threads that may be inside the driver at once.
NumCallers == 2
\* Largest number of firmware child nodes the probe loop is given.
MaxChildren == 2

\* ------------------------------------------------- program constants
IEI_WT61P803_PUZZLE_HWMON_MAX_PWM == 2
IEI_WT61P803_PUZZLE_HWMON_MAX_PWM_VAL == 255

\* Protocol bytes of the MCU command set (linux/mfd/iei-wt61p803-puzzle.h).
CMD_HEADER_START == 64
CMD_RESPONSE_OK == 48
CHECKSUM_RESPONSE_OK == 112
CMD_TEMP == 84
CMD_TEMP_ALL == 65
CMD_FAN == 70
CMD_FAN_PWM_READ == 90
CMD_FAN_PWM_WRITE == 87
CMD_FAN_PWM_BASE == 48
CMD_FAN_RPM_BASE == 65
CMD_FAN_PWM(x) == CMD_FAN_PWM_BASE + x
CMD_FAN_RPM(x) == CMD_FAN_RPM_BASE + x

\* The character '2' the temperature reply carries in byte 3.
NTC_COUNT_TAG == 50

\* errno values, returned negated.
EIO == 5
ENOMEM == 12
EINVAL == 22
EOVERFLOW == 75
ETIMEDOUT == 110

\* umode_t values 0444 and 0644, and the owner-write bit 0200.
S_0444 == 292
S_0644 == 420
S_IWUSR == 128

\* hwmon_pwm_input / hwmon_fan_input / hwmon_temp_input attribute selectors
\* (enum hwmon_pwm_attributes starts with input; fan and temp start with
\* enable, then input).
hwmon_pwm_input == 0
hwmon_fan_input == 1
hwmon_temp_input == 1

At(s, i) == s[i + 1]

U8(x) == x % 256

PwmIdx == 0 .. (IEI_WT61P803_PUZZLE_HWMON_MAX_PWM - 1)

Callers == 1 .. NumCallers


\* Largest reply any verb accepts (the 7-byte temperature and fan replies);
\* only this prefix of response_buffer is ever read.
REPLY_MAX == 7

\* ------------------------------------------------------- environment
\* Raw sensor bytes the MCU may report: the two NTC bytes, the tachometer
\* high and low byte.
TempReadings == { <<160, 112>> }
FanReadings == { <<1, 144>> }

\* Values user space may write to a pwm attribute (a long), and states the
\* thermal governor may set (an unsigned long no larger than max_state).
HwmonVals == {128, 384}
CoolingStates == {128}

\* Firmware child nodes: reg is the PWM index or NoProp when the property is
\* absent; levels is the length of the cooling-levels byte array or NoProp.
NoProp == -1
RegValues == {NoProp, 0, 1}
LevelCounts == {NoProp, 0, 4, 256}
ChildNodes == [reg : RegValues, levels : LevelCounts]

VARIABLES
    probe_pc,                    \* position of iei_wt61p803_puzzle_hwmon_probe
    nchildren,                   \* child nodes the probe loop has taken so far
    child,                       \* the child node the probe loop is at
    probe_ret,                   \* value probe returned
    hwmon_registered,            \* the hwmon device is registered
    attr_mode,                   \* mode each hwmon attribute file was created with
    thermal_cooling_dev_present, \* mcu_hwmon->thermal_cooling_dev_present[]
    cdev,                        \* mcu_hwmon->cdev[]: 0 is NULL, else an index in records
    records,                     \* the allocated thermal cooling device structs
    stray,                       \* stores probe made past the end of an array of the
                                 \* context, as <<array, index>>
    lock,                        \* mcu_hwmon->lock: 0 when free, else the holder
    response_buffer,             \* mcu_hwmon->response_buffer
    mcu_pwm,                     \* duty byte the MCU holds for each PWM output
    pc,                          \* each caller's position
    op,                          \* the callback each caller is in, with its arguments
    cmd,                         \* the caller's request array
    reply_size,                  \* the caller's local reply_size
    ret,                         \* the caller's return value
    value,                       \* the caller's output (*val, *value, *state)
    own_reply,                   \* the reply the bus produced for the caller's exchange
    send_count,                  \* calls of iei_wt61p803_puzzle_write_command the
                                 \* caller's current callback has made
    prev_failed,                 \* history, kept by the specification that follows
                                 \* sequences of callbacks: whether the verb the
                                 \* caller ran before its current callback failed
    written,                     \* history: per PWM channel, the value of the last PWM
                                 \* write that returned 0, NoDuty once a later write
                                 \* to the channel has begun
    vis_call                     \* an evaluation of is_visible on given arguments

probe_vars == <<probe_pc, nchildren, child, probe_ret, hwmon_registered, attr_mode,
                thermal_cooling_dev_present, cdev, records, stray>>
bus_vars == <<lock, response_buffer, mcu_pwm>>
caller_vars == <<pc, op, cmd, reply_size, ret, value, own_reply, send_count,
                 prev_failed>>
vars == <<probe_vars, bus_vars, caller_vars, written, vis_call>>

\* An output location nothing has been stored to, and one holding x.
Unwritten == [written |-> FALSE, v |-> 0]
Stored(x) == [written |-> TRUE, v |-> x]

NoDuty == 0 - 1

NoOp == [entry |-> "none", fn |-> "none", type |-> "none", attr |-> 0,
         channel |-> 0, val |-> 0, rec |-> 0, expect |-> NoDuty]

NoCall == [type |-> "none", attr |-> 0, channel |-> 0, mode |-> 0]

\* The channel layout of iei_wt61p803_puzzle_info: 2 pwm, 5 fan, 2 temp, each
\* with its input attribute.
ChannelInfo ==
    { <<"pwm", hwmon_pwm_input, c>> : c \in 0 .. 1 } \cup
    { <<"fan", hwmon_fan_input, c>> : c \in 0 .. 4 } \cup
    { <<"temp", hwmon_temp_input, c>> : c \in 0 .. 1 }

\* ------------------------------------------------------ unit converter
raw_temp_to_milidegree_celsius(x) == (x - 128) * 1000

raw_fan_val_to_rpm(x, y) == (((x * 256) + y) \div 2) * 60

\* ------------------------------------------------------- command codec
\* The request arrays the four verbs build; a trailing element the code
\* leaves zero-initialised is 0.  Array elements are unsigned char.
temp_sensor_ntc_cmd == <<CMD_HEADER_START, CMD_TEMP, CMD_TEMP_ALL, 0>>

fan_speed_cmd(channel) ==
    <<CMD_HEADER_START, CMD_FAN, U8(CMD_FAN_RPM(channel)), 0>>

\* A write-PWM request whose duty is the value clamped to 0..255.
pwm_set_cmd_clamped(channel, pwm_set_val) ==
    <<CMD_HEADER_START, CMD_FAN, CMD_FAN_PWM_WRITE, U8(CMD_FAN_PWM(channel)),
      IF pwm_set_val > 255 THEN 255 ELSE IF pwm_set_val < 0 THEN 0 ELSE pwm_set_val,
      0>>

pwm_set_cmd(channel, pwm_set_val) ==
    <<CMD_HEADER_START, CMD_FAN, CMD_FAN_PWM_WRITE, U8(CMD_FAN_PWM(channel)),
      U8(pwm_set_val), 0>>

pwm_get_cmd(channel) ==
    <<CMD_HEADER_START, CMD_FAN, CMD_FAN_PWM_READ, U8(CMD_FAN_PWM(channel)), 0>>

\* Reply validation of each verb: size is the caller's reply_size, buf the
\* response buffer as the caller finds it.
TempReplyOk(size, buf) == size = 7 /\ At(buf, 3) = NTC_COUNT_TAG

FanReplyOk(size, buf) == size = 7

PwmWriteReplyOk(size, buf) ==
    /\ size = 3
    /\ At(buf, 0) = CMD_HEADER_START
    /\ At(buf, 1) = CMD_RESPONSE_OK
    /\ At(buf, 2) = CHECKSUM_RESPONSE_OK

PwmReadReplyOk(size, buf) == size = 5 /\ At(buf, 2) = CMD_FAN_PWM_READ

ReplyOk(fn, size, buf) ==
    CASE fn = "read_temp_sensor" -> TempReplyOk(size, buf)
      [] fn = "read_fan_speed" -> FanReplyOk(size, buf)
      [] fn = "write_pwm_channel" -> PwmWriteReplyOk(size, buf)
      [] OTHER -> PwmReadReplyOk(size, buf)

\* resp_buf[i]: response_buffer is zeroed at allocation and no reply of the
\* MCU reaches past REPLY_MAX, so a byte past it is still 0.
RespByte(buf, i) == IF i + 1 \in DOMAIN buf THEN At(buf, i) ELSE 0

\* The value each reading verb stores from the response buffer.
ExtractValue(fn, channel, buf) ==
    CASE fn = "read_temp_sensor" ->
             raw_temp_to_milidegree_celsius(RespByte(buf, 4 + channel))
      [] fn = "read_fan_speed" -> raw_fan_val_to_rpm(At(buf, 3), At(buf, 4))
      [] OTHER -> At(buf, 3)

\* Whether the verb takes mcu_hwmon->lock around its exchange.
TakesLock(fn) == fn \in {"read_temp_sensor", "read_fan_speed", "write_pwm_channel"}

\* ------------------------------------------------------ attribute engine
\* iei_wt61p803_puzzle_is_visible; data is the presence vector.
is_visible(data, type, attr, channel) ==
    CASE type = "pwm" ->
             IF data[channel] THEN S_0444
             ELSE IF attr = hwmon_pwm_input THEN S_0644 ELSE 0
      [] type = "fan" -> IF attr = hwmon_fan_input THEN S_0444 ELSE 0
      [] type = "temp" -> IF attr = hwmon_temp_input THEN S_0444 ELSE 0
      [] OTHER -> 0

\* Sensor kinds of enum hwmon_sensor_types the callbacks may be handed.
SensorTypes == {"chip", "temp", "in", "fan", "pwm"}

\* The verb iei_wt61p803_puzzle_read dispatches a sensor kind to.
ReadDispatch(type) ==
    CASE type = "pwm" -> "read_pwm_channel"
      [] type = "fan" -> "read_fan_speed"
      [] type = "temp" -> "read_temp_sensor"
      [] OTHER -> "none"

\* iei_wt61p803_puzzle_write sends every call to the PWM write verb.
WriteDispatch(type) == "write_pwm_channel"

\* --------------------------------------------------- MCU and transport
\* Replies the MCU may give to a request: the well-formed reply of the verb,
\* and one malformed reply (a short reply to the temperature and the fan
\* verb, a wrong tag byte to the two PWM verbs).
\* The duty the MCU reports for the PWM output a request names; it has the
\* outputs of PwmIdx and reports 0 for any other.
McuDuty(req, pwm) ==
    IF At(req, 3) - CMD_FAN_PWM_BASE \in DOMAIN pwm
    THEN pwm[At(req, 3) - CMD_FAN_PWM_BASE] ELSE 0

McuGoodReplies(req, pwm) ==
    IF At(req, 1) = CMD_TEMP THEN
        { <<CMD_HEADER_START, CMD_TEMP, CMD_TEMP_ALL, NTC_COUNT_TAG, r[1], r[2], 0>> :
              r \in TempReadings }
    ELSE IF At(req, 2) = CMD_FAN_PWM_WRITE THEN
        { <<CMD_HEADER_START, CMD_RESPONSE_OK, CHECKSUM_RESPONSE_OK>> }
    ELSE IF At(req, 2) = CMD_FAN_PWM_READ THEN
        { <<CMD_HEADER_START, CMD_FAN, CMD_FAN_PWM_READ, McuDuty(req, pwm), 0>> }
    ELSE
        { <<CMD_HEADER_START, CMD_FAN, At(req, 2), r[1], r[2], 0, 0>> :
              r \in FanReadings }

McuBadReplies(req, pwm) ==
    IF At(req, 1) = CMD_TEMP THEN
        { <<CMD_HEADER_START, CMD_TEMP, CMD_TEMP_ALL, NTC_COUNT_TAG, 160, 112>> }
    ELSE IF At(req, 2) = CMD_FAN_PWM_WRITE THEN
        { <<CMD_HEADER_START, CMD_RESPONSE_OK + 1, CHECKSUM_RESPONSE_OK + 1>> }
    ELSE IF At(req, 2) = CMD_FAN_PWM_READ THEN
        { <<CMD_HEADER_START, CMD_FAN, CMD_FAN_PWM_WRITE, McuDuty(req, pwm), 0>> }
    ELSE
        { <<CMD_HEADER_START, CMD_FAN, At(req, 2), 1, 144, 0>> }

McuReplies(req, pwm) == McuGoodReplies(req, pwm) \cup McuBadReplies(req, pwm)

\* The MCU's duty registers after it answered req with reply: an acknowledged
\* PWM write stores the duty byte of the request.
McuAfter(req, reply, pwm) ==
    IF /\ At(req, 2) = CMD_FAN_PWM_WRITE
       /\ At(req, 3) - CMD_FAN_PWM_BASE \in DOMAIN pwm
       /\ reply = <<CMD_HEADER_START, CMD_RESPONSE_OK, CHECKSUM_RESPONSE_OK>>
    THEN [pwm EXCEPT ![At(req, 3) - CMD_FAN_PWM_BASE] = At(req, 4)]
    ELSE pwm

\* iei_wt61p803_puzzle_write_command copies the reply to the start of
\* reply_data and leaves the rest of the buffer as it was.
CopyReply(buf, reply) ==
    [i \in 1 .. REPLY_MAX |-> IF i <= Len(reply) THEN reply[i] ELSE buf[i]]

\* ---------------------------------------------------------------- Init
NoChild == [reg |-> NoProp, levels |-> NoProp]

Init ==
    /\ probe_pc = "unbound"
    /\ nchildren = 0
    /\ child = NoChild
    /\ probe_ret = 0
    /\ hwmon_registered = FALSE
    /\ attr_mode = [a \in ChannelInfo |-> 0]
    /\ thermal_cooling_dev_present = [i \in PwmIdx |-> FALSE]
    /\ cdev = [i \in PwmIdx |-> 0]
    /\ records = <<>>
    /\ stray = {}
    /\ lock = 0
    /\ response_buffer = [i \in 1 .. REPLY_MAX |-> 0]
    /\ mcu_pwm = [i \in PwmIdx |-> 0]
    /\ pc = [t \in Callers |-> "idle"]
    /\ op = [t \in Callers |-> NoOp]
    /\ cmd = [t \in Callers |-> <<>>]
    /\ reply_size = [t \in Callers |-> 0]
    /\ ret = [t \in Callers |-> 0]
    /\ value = [t \in Callers |-> Unwritten]
    /\ own_reply = [t \in Callers |-> <<>>]
    /\ send_count = [t \in Callers |-> 0]
    /\ prev_failed = [t \in Callers |-> "untracked"]
    /\ written = [i \in PwmIdx |-> NoDuty]
    /\ vis_call = NoCall

\* ------------------------------------------------------------ callbacks
\* The request array verb fn builds for its arguments.
BuildCmd(fn, channel, val) ==
    CASE fn = "read_temp_sensor" -> temp_sensor_ntc_cmd
      [] fn = "read_fan_speed" -> fan_speed_cmd(channel)
      [] fn = "write_pwm_channel" -> pwm_set_cmd(channel, val)
      [] OTHER -> pwm_get_cmd(channel)

\* History for the write-then-read round trip: a PWM read expects the value of
\* the last write that returned 0 on its channel, unless a write to the
\* channel begins before the read has returned.
ExpectAtEntry(o) ==
    IF o.fn = "read_pwm_channel" /\ o.channel \in PwmIdx
    THEN written[o.channel] ELSE NoDuty

Overtaken(reading, o) ==
    /\ o.fn = "write_pwm_channel"
    /\ reading.fn = "read_pwm_channel"
    /\ reading.channel = o.channel

\* Caller t enters verb fn: the request is built and, for the verbs that take
\* it, mcu_hwmon->lock is acquired (the caller waits while it is held).
EnterVerb(t, o) ==
    /\ TakesLock(o.fn) => lock = 0
    /\ lock' = IF TakesLock(o.fn) THEN t ELSE lock
    /\ pc' = [pc EXCEPT ![t] = "xfer"]
    /\ op' = [u \in Callers |->
                 IF u = t THEN [o EXCEPT !.expect = ExpectAtEntry(o)]
                 ELSE IF Overtaken(op[u], o) THEN [op[u] EXCEPT !.expect = NoDuty]
                 ELSE op[u]]
    /\ written' = IF o.fn = "write_pwm_channel" /\ o.channel \in PwmIdx
                  THEN [written EXCEPT ![o.channel] = NoDuty]
                  ELSE written
    /\ cmd' = [cmd EXCEPT ![t] = BuildCmd(o.fn, o.channel, o.val)]
    /\ send_count' = [send_count EXCEPT ![t] = @ + 1]
    /\ UNCHANGED <<reply_size, ret, value, own_reply, prev_failed, response_buffer,
                   mcu_pwm, vis_call>>

\* The verb returns r: mutex_unlock at the exit label of the locking verbs.
Leave(t, r) ==
    /\ ret' = [ret EXCEPT ![t] = r]
    /\ pc' = [pc EXCEPT ![t] = "done"]
    /\ lock' = IF TakesLock(op[t].fn) THEN 0 ELSE lock
    /\ written' = IF op[t].fn = "write_pwm_channel" /\ op[t].channel \in PwmIdx /\ r = 0
                  THEN [written EXCEPT ![op[t].channel] = op[t].val]
                  ELSE written
    /\ UNCHANGED <<prev_failed, vis_call>>

\* A callback returns r without entering a verb.
ReturnAtOnce(t, o, r) ==
    /\ pc' = [pc EXCEPT ![t] = "done"]
    /\ op' = [op EXCEPT ![t] = o]
    /\ ret' = [ret EXCEPT ![t] = r]
    /\ UNCHANGED <<bus_vars, cmd, reply_size, value, own_reply, send_count,
                   prev_failed, written, vis_call>>

\* iei_wt61p803_puzzle_read: the switch on the sensor kind, which calls the
\* verb of the kind with the channel as it came, or returns -EINVAL.
iei_wt61p803_puzzle_read(t, type, attr, channel) ==
    LET o == [entry |-> "read", fn |-> ReadDispatch(type), type |-> type,
              attr |-> attr, channel |-> channel, val |-> 0, rec |-> 0,
              expect |-> NoDuty]
    IN  IF ReadDispatch(type) = "none"
        THEN ReturnAtOnce(t, o, -EINVAL)
        ELSE EnterVerb(t, o)

\* iei_wt61p803_puzzle_write: calls the PWM write verb with the channel and
\* the value as they came.
iei_wt61p803_puzzle_write(t, type, attr, channel, val) ==
    EnterVerb(t, [entry |-> "write", fn |-> WriteDispatch(type), type |-> type,
                  attr |-> attr, channel |-> channel, val |-> val, rec |-> 0,
                  expect |-> NoDuty])

\* iei_wt61p803_puzzle_read, called by the hwmon core for an attribute file
\* that exists and is readable.
HwmonRead(t, type, attr, channel) ==
    /\ pc[t] = "idle"
    /\ hwmon_registered
    /\ <<type, attr, channel>> \in ChannelInfo
    /\ attr_mode[<<type, attr, channel>>] # 0
    /\ iei_wt61p803_puzzle_read(t, type, attr, channel)
    /\ UNCHANGED probe_vars

\* iei_wt61p803_puzzle_write, called by the hwmon core for an attribute file
\* created with a write permission bit.
HwmonWrite(t, type, attr, channel, val) ==
    /\ pc[t] = "idle"
    /\ hwmon_registered
    /\ <<type, attr, channel>> \in ChannelInfo
    /\ (attr_mode[<<type, attr, channel>>] \div S_IWUSR) % 2 = 1
    /\ iei_wt61p803_puzzle_write(t, type, attr, channel, val)
    /\ UNCHANGED probe_vars

\* iei_wt61p803_puzzle_get_max_state on registered cooling device r.
GetMaxState(t, r) ==
    /\ pc[t] = "idle"
    /\ r \in 1 .. Len(records) /\ records[r].tcdev
    /\ op' = [op EXCEPT ![t] = [NoOp EXCEPT !.entry = "get_max_state", !.rec = r]]
    /\ value' = [value EXCEPT ![t] = Stored(IEI_WT61P803_PUZZLE_HWMON_MAX_PWM_VAL)]
    /\ ret' = [ret EXCEPT ![t] = 0]
    /\ pc' = [pc EXCEPT ![t] = "done"]
    /\ UNCHANGED <<probe_vars, bus_vars, cmd, reply_size, own_reply, send_count,
                   prev_failed, written, vis_call>>

\* A cooling callback entered before probe stored cdev->mcu_hwmon
\* dereferences a null pointer: the calling thread dies.
NullDeref(t, o) ==
    /\ pc' = [pc EXCEPT ![t] = "oops"]
    /\ op' = [op EXCEPT ![t] = o]
    /\ UNCHANGED <<bus_vars, cmd, reply_size, ret, value, own_reply, send_count,
                   prev_failed, written, vis_call>>

\* iei_wt61p803_puzzle_get_cur_state on registered cooling device r.
GetCurState(t, r) ==
    /\ pc[t] = "idle"
    /\ r \in 1 .. Len(records) /\ records[r].tcdev
    /\ LET o == [entry |-> "get_cur_state", fn |-> "read_pwm_channel",
                 type |-> "none", attr |-> 0,
                 channel |-> records[r].pwm_channel, val |-> 0, rec |-> r,
                 expect |-> NoDuty]
       IN  IF records[r].mcu_hwmon THEN EnterVerb(t, o) ELSE NullDeref(t, o)
    /\ UNCHANGED probe_vars

\* A set_cur_state that addresses the PWM output by the position of the
\* cooling device instead of its pwm_channel field.
SetCurState_ByPosition(t, r, state) ==
    /\ pc[t] = "idle"
    /\ r \in 1 .. Len(records) /\ records[r].tcdev
    /\ LET o == [entry |-> "set_cur_state", fn |-> "write_pwm_channel",
                 type |-> "none", attr |-> 0,
                 channel |-> r - 1, val |-> state, rec |-> r,
                 expect |-> NoDuty]
       IN  IF records[r].mcu_hwmon THEN EnterVerb(t, o) ELSE NullDeref(t, o)
    /\ UNCHANGED probe_vars

\* iei_wt61p803_puzzle_set_cur_state on registered cooling device r.
SetCurState(t, r, state) ==
    /\ pc[t] = "idle"
    /\ r \in 1 .. Len(records) /\ records[r].tcdev
    /\ LET o == [entry |-> "set_cur_state", fn |-> "write_pwm_channel",
                 type |-> "none", attr |-> 0,
                 channel |-> records[r].pwm_channel, val |-> state, rec |-> r,
                 expect |-> NoDuty]
       IN  IF records[r].mcu_hwmon THEN EnterVerb(t, o) ELSE NullDeref(t, o)
    /\ UNCHANGED probe_vars

StoreReply(t, reply) ==
    /\ response_buffer' = CopyReply(response_buffer, reply)
    /\ mcu_pwm' = McuAfter(cmd[t], reply, mcu_pwm)
    /\ reply_size' = [reply_size EXCEPT ![t] = Len(reply)]
    /\ own_reply' = [own_reply EXCEPT ![t] = reply]
    /\ pc' = [pc EXCEPT ![t] = "check"]

\* A verb that answers a transport error by sending its request once more.
XferError_Retry(t) ==
    /\ pc[t] = "xfer"
    /\ send_count[t] < 2
    /\ send_count' = [send_count EXCEPT ![t] = @ + 1]
    /\ UNCHANGED <<probe_vars, bus_vars, pc, op, cmd, reply_size, ret, value,
                   own_reply, prev_failed, written, vis_call>>

\* iei_wt61p803_puzzle_write_command returns to caller t: either the
\* transport fails, or the MCU's reply is in the response buffer and its
\* length in reply_size.
XferError(t) ==
    /\ pc[t] = "xfer"
    /\ Leave(t, -ETIMEDOUT)
    /\ UNCHANGED <<probe_vars, response_buffer, mcu_pwm, op, cmd, reply_size,
                   value, own_reply, send_count>>

XferReply(t) ==
    /\ pc[t] = "xfer"
    /\ \E reply \in McuReplies(cmd[t], mcu_pwm) : StoreReply(t, reply)
    /\ UNCHANGED <<probe_vars, lock, op, cmd, ret, value, send_count, prev_failed,
                   written, vis_call>>

\* The verb's checks of reply_size and of the tag bytes in the buffer.
CheckReply(t) ==
    /\ pc[t] = "check"
    /\ IF ~ReplyOk(op[t].fn, reply_size[t], response_buffer)
       THEN Leave(t, -EIO)
       ELSE IF op[t].fn = "write_pwm_channel"
       THEN Leave(t, 0)
       ELSE /\ pc' = [pc EXCEPT ![t] = "extract"]
            /\ UNCHANGED <<lock, ret, prev_failed, written, vis_call>>
    /\ UNCHANGED <<probe_vars, response_buffer, mcu_pwm, op, cmd, reply_size,
                   value, own_reply, send_count>>

\* The verb stores the converted bytes to *value and returns 0.
Extract(t) ==
    /\ pc[t] = "extract"
    /\ value' = [value EXCEPT ![t] =
                    Stored(ExtractValue(op[t].fn, op[t].channel, response_buffer))]
    /\ Leave(t, 0)
    /\ UNCHANGED <<probe_vars, response_buffer, mcu_pwm, op, cmd, reply_size,
                   own_reply, send_count>>

\* The history of caller t once its callback has returned: kept only where it
\* is tracked; a verb that returned an error counts as failed.
PrevFailedAfter(t) ==
    IF prev_failed[t] = "untracked" THEN "untracked"
    ELSE IF op[t].fn # "none" /\ ret[t] # 0 THEN "yes"
    ELSE "no"

\* The callback has returned and its caller has taken the result.
Return(t) ==
    /\ pc[t] = "done"
    /\ pc' = [pc EXCEPT ![t] = "idle"]
    /\ op' = [op EXCEPT ![t] = NoOp]
    /\ cmd' = [cmd EXCEPT ![t] = <<>>]
    /\ reply_size' = [reply_size EXCEPT ![t] = 0]
    /\ ret' = [ret EXCEPT ![t] = 0]
    /\ value' = [value EXCEPT ![t] = Unwritten]
    /\ own_reply' = [own_reply EXCEPT ![t] = <<>>]
    /\ send_count' = [send_count EXCEPT ![t] = 0]
    /\ prev_failed' = [prev_failed EXCEPT ![t] = PrevFailedAfter(t)]
    /\ UNCHANGED <<probe_vars, bus_vars, written, vis_call>>

\* ---------------------------------------------------------------- probe
\* Firmware node accessors.  fwnode_property_read_u32(child, "reg"),
\* fwnode_property_count_u8(child, "cooling-levels") and
\* fwnode_property_read_u8_array(child, "cooling-levels", buf, nval) return
\* -EINVAL for an absent property; reading more values than the property
\* holds is -EOVERFLOW.
fwnode_read_reg(c) == IF c.reg = NoProp THEN -EINVAL ELSE 0

fwnode_property_count_u8(c) == IF c.levels = NoProp THEN -EINVAL ELSE c.levels

fwnode_property_read_u8_array(c, nval) ==
    IF c.levels = NoProp THEN -EINVAL
    ELSE IF nval > c.levels THEN -EOVERFLOW
    ELSE 0

\* u8 num_levels = fwnode_property_count_u8(...)
num_levels_of(c) == U8(fwnode_property_count_u8(c))

\* iei_wt61p803_puzzle_enable_thermal_cooling_dev reaches its allocations
\* for child c: reg was read and num_levels is not zero.
ReachesAlloc(c) == fwnode_read_reg(c) = 0 /\ num_levels_of(c) # 0

\* The errors iei_wt61p803_puzzle_enable_thermal_cooling_dev may return for
\* child c: the error of reading reg; -EINVAL of the num_levels test; past
\* it -ENOMEM of devm_kzalloc or devm_kmalloc_array, the error of reading
\* the array, or the error of a failed cooling-device registration.
EnableErrors(c) ==
    IF fwnode_read_reg(c) # 0 THEN {fwnode_read_reg(c)}
    ELSE IF num_levels_of(c) = 0 THEN {-EINVAL}
    ELSE IF fwnode_property_read_u8_array(c, num_levels_of(c)) # 0
    THEN {-ENOMEM, fwnode_property_read_u8_array(c, num_levels_of(c))}
    ELSE {-ENOMEM}

\* The function can get as far as registering the cooling device.
CanRegister(c) ==
    ReachesAlloc(c) /\ fwnode_property_read_u8_array(c, num_levels_of(c)) = 0

\* The presence vector after enable_thermal_cooling_dev ran for child c: the
\* flag is stored right after reg was read.
PresenceAfter(present, c) ==
    IF fwnode_read_reg(c) # 0 \/ c.reg \notin DOMAIN present THEN present
    ELSE [present EXCEPT ![c.reg] = TRUE]

\* The same store for a reg that is no index of the array lands past its end
\* (in the padding that follows the two flags).
StrayAfter(c) ==
    IF fwnode_read_reg(c) = 0 /\ c.reg \notin PwmIdx
    THEN stray \cup { <<"thermal_cooling_dev_present", c.reg>> }
    ELSE stray

\* What a store past the end of cdev[] leaves in the mutex that follows the
\* array in the context: the lock word as it was, or a word that is neither
\* free nor any caller.
LockClobbered == 0 - 1

\* Probe returns error e: the driver core releases the device's managed
\* resources, which unregisters the cooling devices and the hwmon device;
\* unregistering waits for the callbacks that are running.
ProbeFail(e) ==
    /\ \A t \in Callers : pc[t] \notin {"xfer", "check", "extract"}
    /\ probe_pc' = "failed"
    /\ probe_ret' = e
    /\ hwmon_registered' = FALSE
    /\ records' = [r \in 1 .. Len(records) |-> [records[r] EXCEPT !.tcdev = FALSE]]

\* devm_kzalloc of the context or devm_hwmon_device_register_with_info fails.
ProbeRegisterFail ==
    /\ probe_pc = "unbound"
    /\ ProbeFail(-ENOMEM)
    /\ UNCHANGED <<nchildren, child, attr_mode, thermal_cooling_dev_present, cdev,
                   stray, bus_vars, caller_vars, written, vis_call>>

\* The context is allocated (zeroed), the lock initialised and the hwmon
\* device registered: the hwmon core creates each attribute file of the
\* channel layout with the mode is_visible returns for it now.
ProbeRegister ==
    /\ probe_pc = "unbound"
    /\ probe_pc' = "children"
    /\ hwmon_registered' = TRUE
    /\ attr_mode' = [a \in ChannelInfo |->
                        is_visible(thermal_cooling_dev_present, a[1], a[2], a[3])]
    /\ UNCHANGED <<nchildren, child, probe_ret, thermal_cooling_dev_present, cdev,
                   records, stray, bus_vars, caller_vars, written, vis_call>>

\* A child loop that notes the error of a child and goes on to the next one.
ProbeChildFail_GoesOn(c, e) ==
    /\ probe_pc = "children"
    /\ nchildren < MaxChildren
    /\ e \in EnableErrors(c)
    /\ nchildren' = nchildren + 1
    /\ child' = c
    /\ thermal_cooling_dev_present' = PresenceAfter(thermal_cooling_dev_present, c)
    /\ stray' = StrayAfter(c)
    /\ probe_ret' = e
    /\ UNCHANGED <<probe_pc, hwmon_registered, records, attr_mode, cdev, bus_vars,
                   caller_vars, written, vis_call>>

\* device_for_each_child_node hands the next child c to
\* iei_wt61p803_puzzle_enable_thermal_cooling_dev, which returns error e;
\* probe returns it.
ProbeChildFail(c, e) ==
    /\ probe_pc = "children"
    /\ nchildren < MaxChildren
    /\ e \in EnableErrors(c)
    /\ nchildren' = nchildren + 1
    /\ child' = c
    /\ thermal_cooling_dev_present' = PresenceAfter(thermal_cooling_dev_present, c)
    /\ stray' = StrayAfter(c)
    /\ ProbeFail(e)
    /\ UNCHANGED <<attr_mode, cdev, bus_vars, caller_vars, written, vis_call>>

\* The same, up to the successful registration of the cooling device: the
\* thermal core may call its callbacks from here on.
ProbeChildRegister(c) ==
    /\ probe_pc = "children"
    /\ nchildren < MaxChildren
    /\ CanRegister(c)
    /\ nchildren' = nchildren + 1
    /\ child' = c
    /\ thermal_cooling_dev_present' = PresenceAfter(thermal_cooling_dev_present, c)
    /\ stray' = StrayAfter(c)
    /\ records' = Append(records, [name |-> c.reg, num_levels |-> num_levels_of(c),
                                   tcdev |-> TRUE, mcu_hwmon |-> FALSE,
                                   pwm_channel |-> 0])
    /\ probe_pc' = "assign"
    /\ UNCHANGED <<probe_ret, hwmon_registered, attr_mode, cdev, bus_vars,
                   caller_vars, written, vis_call>>

\* The last three stores of enable_thermal_cooling_dev: cdev->mcu_hwmon,
\* cdev->pwm_channel and mcu_hwmon->cdev[pwm_channel].
ProbeChildInstall ==
    /\ probe_pc = "assign"
    /\ records' = [records EXCEPT ![Len(records)] =
                      [@ EXCEPT !.mcu_hwmon = TRUE, !.pwm_channel = child.reg]]
    /\ IF child.reg \in PwmIdx
       THEN /\ cdev' = [cdev EXCEPT ![child.reg] = Len(records)]
            /\ UNCHANGED <<stray, lock>>
       ELSE /\ stray' = stray \cup { <<"cdev", child.reg>> }
            /\ lock' \in {lock, LockClobbered}
            /\ UNCHANGED cdev
    /\ probe_pc' = "children"
    /\ UNCHANGED <<nchildren, child, probe_ret, hwmon_registered, attr_mode,
                   thermal_cooling_dev_present, response_buffer, mcu_pwm, caller_vars,
                   written, vis_call>>

\* The child loop ends and probe returns 0.
ProbeDone ==
    /\ probe_pc = "children"
    /\ probe_pc' = "ready"
    /\ probe_ret' = 0
    /\ UNCHANGED <<nchildren, child, hwmon_registered, attr_mode,
                   thermal_cooling_dev_present, cdev, records, stray, bus_vars,
                   caller_vars, written, vis_call>>

\* ----------------------------------------------------------------- Next
\* Probe with child nodes drawn from nodes.
ProbeOver(nodes) ==
    \/ ProbeRegisterFail
    \/ ProbeRegister
    \/ \E c \in nodes : \E e \in {-EINVAL, -EOVERFLOW, -ENOMEM} : ProbeChildFail(c, e)
    \/ \E c \in nodes : ProbeChildRegister(c)
    \/ ProbeChildInstall
    \/ ProbeDone

Probe == ProbeOver(ChildNodes)

\* What callback a caller may be in: entering one with an attribute of attrs,
\* a written value of vals or a cooling state of states, or taking the next
\* step of the one it is in.
Caller(t, attrs, vals, states) ==
    \/ \E a \in attrs : HwmonRead(t, a[1], a[2], a[3])
    \/ \E a \in attrs : \E v \in vals : HwmonWrite(t, a[1], a[2], a[3], v)
    \/ \E r \in 1 .. Len(records) : GetMaxState(t, r)
    \/ \E r \in 1 .. Len(records) : GetCurState(t, r)
    \/ \E r \in 1 .. Len(records) : \E s \in states : SetCurState(t, r, s)
    \/ XferError(t)
    \/ XferReply(t)
    \/ CheckReply(t)
    \/ Extract(t)
    \/ Return(t)

\* The whole life of the device, with one thread using it: probe from the
\* unbound device on, and the callbacks as soon as they are registered.
Next == Probe \/ Caller(1, ChannelInfo, HwmonVals, CoolingStates)

Spec == Init /\ [][Next]_vars

\* ------------------------------------------- probe on its own
\* Probe over firmware whose child nodes may also carry a reg that is no PWM
\* index of the device (the property is a u32).
ProbeRegs == RegValues \cup {2}
ProbeNodes == [reg : ProbeRegs, levels : LevelCounts]

NextProbe == ProbeOver(ProbeNodes)

SpecProbe == Init /\ [][NextProbe]_vars

\* ------------------------------------------- concurrent callers on READY
\* The states probe leaves the device in when it returns 0 after binding
\* the children with the reg values regs (each with a usable cooling-levels
\* property): the attribute modes are those of the registration, which
\* precedes the child loop.
ReadyChild(reg) == [reg |-> reg, levels |-> 4]

IsReadyState(regs) ==
    /\ probe_pc = "ready"
    /\ nchildren = Len(regs)
    /\ child = IF regs = <<>> THEN NoChild ELSE ReadyChild(regs[Len(regs)])
    /\ probe_ret = 0
    /\ hwmon_registered = TRUE
    /\ attr_mode = [a \in ChannelInfo |->
                       is_visible([i \in PwmIdx |-> FALSE], a[1], a[2], a[3])]
    /\ thermal_cooling_dev_present =
           [i \in PwmIdx |-> \E k \in 1 .. Len(regs) : regs[k] = i]
    /\ cdev = [i \in PwmIdx |->
                  IF \E k \in 1 .. Len(regs) : regs[k] = i
                  THEN CHOOSE k \in 1 .. Len(regs) :
                           regs[k] = i /\ \A j \in (k + 1) .. Len(regs) : regs[j] # i
                  ELSE 0]
    /\ records = [k \in 1 .. Len(regs) |->
                     [name |-> regs[k], num_levels |-> num_levels_of(ReadyChild(regs[k])),
                      tcdev |-> TRUE, mcu_hwmon |-> TRUE, pwm_channel |-> regs[k]]]
    /\ stray = {}

\* Attributes and values the concurrent callers use.
CallerAttrs == { a \in ChannelInfo : a[1] # "fan" \/ a[3] = 3 }
CallerVals == {128}
CallerStates == {128}
CallerRegs == { <<>>, <<0>>, <<1>> }

InitCallers ==
    /\ \E regs \in CallerRegs : IsReadyState(regs)
    /\ lock = 0
    /\ response_buffer = [i \in 1 .. REPLY_MAX |-> 0]
    /\ mcu_pwm = [i \in PwmIdx |-> 0]
    /\ pc = [t \in Callers |-> "idle"]
    /\ op = [t \in Callers |-> NoOp]
    /\ cmd = [t \in Callers |-> <<>>]
    /\ reply_size = [t \in Callers |-> 0]
    /\ ret = [t \in Callers |-> 0]
    /\ value = [t \in Callers |-> Unwritten]
    /\ own_reply = [t \in Callers |-> <<>>]
    /\ send_count = [t \in Callers |-> 0]
    /\ prev_failed = [t \in Callers |-> "untracked"]
    /\ written = [i \in PwmIdx |-> NoDuty]
    /\ vis_call = NoCall

NextCallers == \E t \in Callers : Caller(t, CallerAttrs, CallerVals, CallerStates)

SpecCallers == InitCallers /\ [][NextCallers]_vars

\* Every state in which probe has returned 0 is one of the READY states.
ReadyStatesAreReady ==
    probe_pc = "ready" =>
        \E regs \in UNION { [1 .. n -> PwmIdx] : n \in 0 .. MaxChildren } :
            IsReadyState(regs)

\* ------------------------------------------- sequences of callbacks
\* Concurrent callers on a READY device without cooling devices, each with
\* the history of its previous callback; a caller inside a verb goes on
\* (the transport returns, and the code after it runs).
FollowAttrs == { <<"temp", hwmon_temp_input, 0>>, <<"fan", hwmon_fan_input, 3>>,
                 <<"pwm", hwmon_pwm_input, 0>> }

InitFollow ==
    /\ IsReadyState(<<>>)
    /\ lock = 0
    /\ response_buffer = [i \in 1 .. REPLY_MAX |-> 0]
    /\ mcu_pwm = [i \in PwmIdx |-> 0]
    /\ pc = [t \in Callers |-> "idle"]
    /\ op = [t \in Callers |-> NoOp]
    /\ cmd = [t \in Callers |-> <<>>]
    /\ reply_size = [t \in Callers |-> 0]
    /\ ret = [t \in Callers |-> 0]
    /\ value = [t \in Callers |-> Unwritten]
    /\ own_reply = [t \in Callers |-> <<>>]
    /\ send_count = [t \in Callers |-> 0]
    /\ prev_failed = [t \in Callers |-> "no"]
    /\ written = [i \in PwmIdx |-> NoDuty]
    /\ vis_call = NoCall

\* The steps of caller t inside a verb, up to its return.
VerbSteps(t) == XferError(t) \/ XferReply(t) \/ CheckReply(t) \/ Extract(t)

NextFollow ==
    \E t \in Callers :
        \/ \E a \in FollowAttrs : HwmonRead(t, a[1], a[2], a[3])
        \/ \E a \in FollowAttrs : \E v \in CallerVals : HwmonWrite(t, a[1], a[2], a[3], v)
        \/ VerbSteps(t)
        \/ Return(t)

SpecFollow ==
    InitFollow /\ [][NextFollow]_vars /\ \A t \in Callers : WF_vars(VerbSteps(t))

\* ------------------------------------------- the callbacks on their own
\* iei_wt61p803_puzzle_read and iei_wt61p803_puzzle_write as functions of
\* their arguments: one thread calls them on a READY device with any sensor
\* kind, a channel index that is in the range of every kind (0), of the fan
\* kind only (2) or of no kind (5), and a value below, in or above 0..255.
OpsAttrs == {hwmon_pwm_input}
OpsChannels == {0, 2, 5}
OpsVals == {0 - 1, 128, 384}
OpsStates == {255}

OpsRead(t, type, attr, channel) ==
    /\ pc[t] = "idle"
    /\ iei_wt61p803_puzzle_read(t, type, attr, channel)
    /\ UNCHANGED probe_vars

OpsWrite(t, type, attr, channel, val) ==
    /\ pc[t] = "idle"
    /\ iei_wt61p803_puzzle_write(t, type, attr, channel, val)
    /\ UNCHANGED probe_vars

NextOps ==
    \/ \E type \in SensorTypes : \E attr \in OpsAttrs : \E channel \in OpsChannels :
           OpsRead(1, type, attr, channel)
    \/ \E type \in SensorTypes : \E attr \in OpsAttrs : \E channel \in OpsChannels :
           \E val \in OpsVals : OpsWrite(1, type, attr, channel, val)
    \/ \E r \in 1 .. Len(records) : \E s \in OpsStates : SetCurState(1, r, s)
    \/ XferError(1)
    \/ XferReply(1)
    \/ CheckReply(1)
    \/ Extract(1)
    \/ Return(1)

SpecOps == InitCallers /\ [][NextOps]_vars

\* ------------------------------------------- is_visible on its own
\* The visibility function applied once to any sensor kind, attribute
\* selector, PWM-sized channel index and presence vector.
AttrSelectors == 0 .. 2

InitVisible ==
    /\ probe_pc = "unbound"
    /\ nchildren = 0
    /\ child = NoChild
    /\ probe_ret = 0
    /\ hwmon_registered = FALSE
    /\ attr_mode = [a \in ChannelInfo |-> 0]
    /\ thermal_cooling_dev_present \in [PwmIdx -> BOOLEAN]
    /\ cdev = [i \in PwmIdx |-> 0]
    /\ records = <<>>
    /\ stray = {}
    /\ lock = 0
    /\ response_buffer = [i \in 1 .. REPLY_MAX |-> 0]
    /\ mcu_pwm = [i \in PwmIdx |-> 0]
    /\ pc = [t \in Callers |-> "idle"]
    /\ op = [t \in Callers |-> NoOp]
    /\ cmd = [t \in Callers |-> <<>>]
    /\ reply_size = [t \in Callers |-> 0]
    /\ ret = [t \in Callers |-> 0]
    /\ value = [t \in Callers |-> Unwritten]
    /\ own_reply = [t \in Callers |-> <<>>]
    /\ send_count = [t \in Callers |-> 0]
    /\ prev_failed = [t \in Callers |-> "untracked"]
    /\ written = [i \in PwmIdx |-> NoDuty]
    /\ vis_call = NoCall

IsVisibleEval(type, attr, channel) ==
    /\ vis_call = NoCall
    /\ vis_call' = [type |-> type, attr |-> attr, channel |-> channel,
                    mode |-> is_visible(thermal_cooling_dev_present, type, attr, channel)]
    /\ UNCHANGED <<probe_vars, bus_vars, caller_vars, written>>

NextVisible ==
    \E type \in SensorTypes : \E attr \in AttrSelectors : \E channel \in PwmIdx :
        IsVisibleEval(type, attr, channel)

SpecVisible == InitVisible /\ [][NextVisible]_vars

\* ======================================================================
\* Properties
\* ======================================================================

\* A caller is between issuing its request and having taken its bytes from
\* the response buffer.
InExchange(t) == pc[t] \in {"xfer", "check", "extract"}

\* The framing contract of each verb, on a reply as the bus delivered it.
FramedOk(fn, reply) ==
    CASE fn = "read_temp_sensor" -> Len(reply) = 7 /\ reply[4] = NTC_COUNT_TAG
      [] fn = "read_fan_speed" -> Len(reply) = 7
      [] fn = "write_pwm_channel" ->
             reply = <<CMD_HEADER_START, CMD_RESPONSE_OK, CHECKSUM_RESPONSE_OK>>
      [] OTHER -> Len(reply) = 5 /\ reply[3] = CMD_FAN_PWM_READ

\* The value a reading verb owes its caller for a well-framed reply.
FramedValue(fn, channel, reply) ==
    CASE fn = "read_temp_sensor" -> (reply[5 + channel] - 128) * 1000
      [] fn = "read_fan_speed" -> ((reply[4] * 256 + reply[5]) \div 2) * 60
      [] OTHER -> reply[4]

\* The result of one exchange run on its own: the transport's error when the
\* bus gave no reply, an I/O error for a reply off the contract, else success
\* with the value of the caller's own reply.
SerialResult(t) ==
    IF own_reply[t] = <<>> THEN ret[t] = -ETIMEDOUT /\ value[t] = Unwritten
    ELSE IF ~FramedOk(op[t].fn, own_reply[t]) THEN ret[t] = -EIO /\ value[t] = Unwritten
    ELSE IF op[t].fn = "write_pwm_channel" THEN ret[t] = 0 /\ value[t] = Unwritten
    ELSE /\ ret[t] = 0
         /\ value[t] = Stored(FramedValue(op[t].fn, op[t].channel, own_reply[t]))

Returned(t) == pc[t] = "done" /\ op[t].fn # "none"

\* C1: every caller that is between issuing its request and having taken its
\* bytes from the shared response buffer holds the transaction lock, for all
\* four verbs.
C1_LockHeldForExchange == \A t \in Callers : InExchange(t) => lock = t

\* C2: whatever runs concurrently, each caller returns the result of its own
\* exchange: its value and error code come from the reply bytes the bus
\* produced for it.
C2_SerialResults == \A t \in Callers : Returned(t) => SerialResult(t)

\* A cooling device whose set-state callback can write PWM index i.
CoolingWritable(i) ==
    \E r \in 1 .. Len(records) :
        records[r].tcdev /\ records[r].mcu_hwmon /\ records[r].pwm_channel = i

HwmonWritable(i) ==
    (attr_mode[<<"pwm", hwmon_pwm_input, i>>] \div S_IWUSR) % 2 = 1

\* C3: after a successful probe every governor-owned PWM index has its
\* pwm input attribute created with mode 0444 while its cooling device can
\* write it, and no PWM index is writable through hwmon and through a
\* cooling device at once.
C3_GovernorOwnedReadOnly ==
    /\ probe_pc = "ready" =>
           \A i \in PwmIdx :
               thermal_cooling_dev_present[i] =>
                   /\ attr_mode[<<"pwm", hwmon_pwm_input, i>>] = S_0444
                   /\ CoolingWritable(i)
    /\ \A i \in PwmIdx : ~(HwmonWritable(i) /\ CoolingWritable(i))

\* A caller's temperature read whose own exchange got a 7-byte reply with
\* the '2' tag, and a fan read whose own exchange got a 7-byte reply.
TempReadAnswered(t) ==
    /\ Returned(t) /\ op[t].fn = "read_temp_sensor"
    /\ Len(own_reply[t]) = 7 /\ own_reply[t][4] = NTC_COUNT_TAG

FanReadAnswered(t) ==
    Returned(t) /\ op[t].fn = "read_fan_speed" /\ Len(own_reply[t]) = 7

\* C4: a temperature read of channel c whose bus reply has 7 bytes, byte 3
\* equal to '2' and byte 4+c equal to b succeeds and returns (b - 128) * 1000,
\* a value in [-128000, 127000].
C4_TempReadValue ==
    \A t \in Callers :
        TempReadAnswered(t) =>
            /\ ret[t] = 0
            /\ value[t] = Stored((own_reply[t][5 + op[t].channel] - 128) * 1000)
            /\ value[t].v \in -128000 .. 127000

\* C5: a fan read whose bus reply has 7 bytes with byte 3 = hi and byte 4 = lo
\* succeeds and returns ((hi << 8) | lo) / 2 * 60, a non-negative value that
\* fits a signed 32-bit integer.
C5_FanReadValue ==
    \A t \in Callers :
        FanReadAnswered(t) =>
            /\ ret[t] = 0
            /\ value[t] = Stored(((own_reply[t][4] * 256 + own_reply[t][5]) \div 2) * 60)
            /\ value[t].v \in 0 .. 2147483647

\* A PWM read that began after a write of v in 0..255 to its channel had
\* returned 0, with no write to the channel begun since, and whose own reply
\* is the MCU's echo of the duty it holds.
RoundTripRead(t) ==
    /\ Returned(t) /\ op[t].fn = "read_pwm_channel"
    /\ op[t].expect \in 0 .. 255
    /\ own_reply[t] = <<CMD_HEADER_START, CMD_FAN, CMD_FAN_PWM_READ, op[t].expect, 0>>

\* C6: with an MCU that stores the duty of an acknowledged write and echoes
\* it on read, a successful PWM write of v in 0..255 followed, with no other
\* write to the channel in between, by a PWM read of the channel returns v.
C6_PwmRoundTrip ==
    \A t \in Callers :
        RoundTripRead(t) => ret[t] = 0 /\ value[t] = Stored(op[t].expect)

\* C7: when the transport succeeds, each verb returns success exactly for a
\* reply that matches its framing contract; any other reply gives -EIO and
\* leaves the caller's output unwritten.
C7_FramingDecides ==
    \A t \in Callers :
        (Returned(t) /\ own_reply[t] # <<>>) =>
            /\ ret[t] = 0 <=> FramedOk(op[t].fn, own_reply[t])
            /\ ~FramedOk(op[t].fn, own_reply[t]) =>
                   ret[t] = -EIO /\ value[t] = Unwritten

\* The child the probe loop took last has a usable reg and a cooling-levels
\* property that is absent or empty.
ChildLacksLevels == child.reg \in PwmIdx /\ child.levels \in {NoProp, 0}

\* C8: a child whose cooling-levels property is missing or has zero length
\* makes probe fail with -EINVAL, whatever its position and reg, and no
\* cooling record of that child is installed.
C8_MissingLevelsFailsEinval ==
    ChildLacksLevels =>
        /\ probe_pc = "failed"
        /\ probe_ret = -EINVAL
        /\ Len(records) = nchildren - 1
        /\ \A i \in PwmIdx : cdev[i] # nchildren

\* The write-PWM and read-PWM requests of the protocol for channel ch.
WritePwmRequest(ch, duty) ==
    <<CMD_HEADER_START, CMD_FAN, CMD_FAN_PWM_WRITE, CMD_FAN_PWM_BASE + ch, duty, 0>>

ReadPwmRequest(ch) ==
    <<CMD_HEADER_START, CMD_FAN, CMD_FAN_PWM_READ, CMD_FAN_PWM_BASE + ch, 0>>

Running(t) == pc[t] \in {"xfer", "check", "extract", "done"}

\* C9: set_cur_state(s) of the cooling device bound to PWM channel ch (the
\* device named for ch) sends the very request an hwmon write of s to channel
\* ch sends, through the same verb and so the same reply validation, for s
\* in 0..255; get_cur_state sends the request of the hwmon PWM read of ch;
\* get_max_state returns 255.
C9_CoolingEqualsHwmon ==
    \A t \in Callers :
        Running(t) =>
            /\ (op[t].entry = "set_cur_state" /\ op[t].val \in 0 .. 255) =>
                   /\ op[t].fn = "write_pwm_channel"
                   /\ cmd[t] = WritePwmRequest(records[op[t].rec].name, op[t].val)
            /\ (op[t].entry = "write" /\ op[t].val \in 0 .. 255) =>
                   /\ op[t].fn = "write_pwm_channel"
                   /\ cmd[t] = WritePwmRequest(op[t].channel, op[t].val)
            /\ op[t].entry = "get_cur_state" =>
                   /\ op[t].fn = "read_pwm_channel"
                   /\ cmd[t] = ReadPwmRequest(records[op[t].rec].name)
            /\ (op[t].entry = "read" /\ op[t].type = "pwm") =>
                   /\ op[t].fn = "read_pwm_channel"
                   /\ cmd[t] = ReadPwmRequest(op[t].channel)
            /\ op[t].entry = "get_max_state" =>
                   ret[t] = 0 /\ value[t] = Stored(255)

\* A set_cur_state(128) on the cooling device of PWM channel 1 has returned 0.
C9_Witness ==
    \E t \in Callers :
        /\ pc[t] = "done" /\ op[t].entry = "set_cur_state" /\ ret[t] = 0
        /\ op[t].val = 128 /\ records[op[t].rec].name = 1

\* The visibility table: read-only temp and fan inputs, the pwm input
\* read-only when its channel is governor-owned and read-write otherwise,
\* nothing else visible.
VisibilityTable(present, type, attr, channel) ==
    IF type = "temp" /\ attr = hwmon_temp_input THEN S_0444
    ELSE IF type = "fan" /\ attr = hwmon_fan_input THEN S_0444
    ELSE IF type = "pwm" /\ attr = hwmon_pwm_input
    THEN (IF present[channel] THEN S_0444 ELSE S_0644)
    ELSE 0

\* C10: is_visible returns the mode of the visibility table for every sensor
\* kind, attribute selector and presence value, 0 for a pwm attribute other
\* than input on a governor-owned channel included.
C10_VisibilityTable ==
    vis_call # NoCall =>
        vis_call.mode = VisibilityTable(thermal_cooling_dev_present, vis_call.type,
                                        vis_call.attr, vis_call.channel)

\* The channel indices each verb's kind has: temp 0..1, fan 0..4, pwm 0..1.
SupportedChannels(fn) ==
    CASE fn = "read_temp_sensor" -> 0 .. 1
      [] fn = "read_fan_speed" -> 0 .. 4
      [] OTHER -> 0 .. 1

\* The callback of caller t has sent no request and has not returned success.
Rejected(t) ==
    /\ send_count[t] = 0
    /\ ~InExchange(t)
    /\ pc[t] = "done" => ret[t] # 0 /\ value[t] = Unwritten

\* C11: a read or write whose channel index is outside the range of its kind
\* is rejected with an error before any request is sent: no call of the bus
\* transport, no read of the response buffer, no success.
C11_ChannelRangeRejected ==
    \A t \in Callers :
        (op[t].fn # "none" /\ op[t].channel \notin SupportedChannels(op[t].fn)) =>
            Rejected(t)

\* C12: the read callback called with a kind other than temp, fan and pwm,
\* and the write callback called with a kind other than pwm, send no request
\* and return -EINVAL.
C12_UnsupportedKindEinval ==
    \A t \in Callers :
        \/ op[t].entry = "read" /\ op[t].type \notin {"temp", "fan", "pwm"}
        \/ op[t].entry = "write" /\ op[t].type # "pwm"
        => /\ send_count[t] = 0
           /\ ~InExchange(t)
           /\ pc[t] = "done" => ret[t] = -EINVAL

\* The verb caller t is in is the one it called next after a verb that failed.
FollowsFailure(t) == prev_failed[t] = "yes" /\ op[t].fn # "none"

\* A verb that failed has released the lock.
FailureFreesLock(t) == (Returned(t) /\ ret[t] # 0) => lock # t

\* The verb that follows a failure holds the lock for its exchange and, given
\* a well-formed reply, succeeds with the value of its own reply.
FollowerUnaffected(t) ==
    FollowsFailure(t) =>
        /\ InExchange(t) => lock = t
        /\ (Returned(t) /\ FramedOk(op[t].fn, own_reply[t])) =>
               /\ ret[t] = 0
               /\ op[t].fn # "write_pwm_channel" =>
                      value[t] = Stored(FramedValue(op[t].fn, op[t].channel, own_reply[t]))

\* A caller whose request went to the transport gets to the return of its
\* callback.
CallbackReturns(t) == InExchange(t) ~> (pc[t] = "done")

\* C13: after a verb fails (transport error or framing error) the lock is
\* free; the operation that follows acquires the lock and, when its reply is
\* well-formed, succeeds with a value computed from its own reply only; and
\* every callback returns once the transport has returned.
C13_FailureLeavesNoState ==
    /\ [](\A t \in Callers : FailureFreesLock(t) /\ FollowerUnaffected(t))
    /\ \A t \in Callers : CallbackReturns(t)

\* A step that writes the presence vector.
PresenceWritten == thermal_cooling_dev_present' # thermal_cooling_dev_present

\* The modes the visibility function gives the attribute files for presence
\* vector present.
ModesFor(present) == [a \in ChannelInfo |-> is_visible(present, a[1], a[2], a[3])]

\* C14: every write to the presence vector happens while the hwmon chip is
\* not yet registered, and in READY each attribute file has the mode the
\* visibility function gives it for the final presence vector.
C14_PresenceBeforeRegistration ==
    /\ [][PresenceWritten => ~hwmon_registered /\ ~hwmon_registered']_vars
    /\ [](probe_pc = "ready" => attr_mode = ModesFor(thermal_cooling_dev_present))

\* Probe has returned an error and the device's managed resources are
\* released: no hwmon device and no cooling device is registered.
TornDown ==
    /\ ~hwmon_registered
    /\ \A r \in 1 .. Len(records) : ~records[r].tcdev

\* C15: when binding a child fails, probe stops at that child and returns
\* the child's error; after the teardown no hwmon device and no cooling
\* device, those of earlier children included, is registered; no later child
\* is processed and the device never gets to READY.
C15_ChildFailureUnwinds ==
    /\ [](/\ (nchildren >= 1 /\ ~CanRegister(child)) =>
               probe_pc = "failed" /\ probe_ret \in EnableErrors(child)
          /\ probe_ret # 0 => probe_pc = "failed"
          /\ probe_pc = "failed" => TornDown)
    /\ [][probe_pc = "failed" =>
              probe_pc' = "failed" /\ nchildren' = nchildren /\ records' = records]_vars

\* Probe failed at its second child after the cooling device of the first
\* had been registered.
C15_Witness ==
    /\ probe_pc = "failed" /\ nchildren = 2 /\ probe_ret # 0
    /\ Len(records) = 1 /\ records[1].mcu_hwmon

\* The callbacks that talk to the MCU.
BusCallbacks == {"read", "write", "get_cur_state", "set_cur_state"}

\* C16: a hwmon read or write and a cooling get_cur_state or set_cur_state
\* calls the bus transport exactly once per invocation, get_max_state never,
\* no callback calls it again after a failure, and a transport error is
\* returned to the caller as it came.
C16_OneSendNoRetry ==
    \A t \in Callers :
        /\ send_count[t] <= 1
        /\ (InExchange(t) \/ Returned(t)) =>
               op[t].entry \in BusCallbacks /\ send_count[t] = 1
        /\ (pc[t] = "done" /\ op[t].entry = "get_max_state") => send_count[t] = 0
        /\ (Returned(t) /\ own_reply[t] = <<>>) =>
               ret[t] = -ETIMEDOUT /\ value[t] = Unwritten

\* A get_cur_state whose exchange the transport failed has returned the
\* transport's error after one call of the transport.
C16_Witness ==
    \E t \in Callers :
        /\ Returned(t) /\ op[t].entry = "get_cur_state" /\ own_reply[t] = <<>>
        /\ ret[t] = -ETIMEDOUT /\ send_count[t] = 1

\* The cooling records probe created for PWM index i, and those of them whose
\* cooling device is registered.
RecordsOf(i) == { r \in 1 .. Len(records) : records[r].name = i }

RegisteredOf(i) == { r \in RecordsOf(i) : records[r].tcdev }

\* C17: whatever child nodes probe is given, two with the same reg
\* included, at most one PWM channel record is created and at most one
\* cooling device is registered for each PWM index.
C17_OneRecordPerIndex ==
    \A i \in PwmIdx :
        Cardinality(RecordsOf(i)) <= 1 /\ Cardinality(RegisteredOf(i)) <= 1

\* C18: the duty byte at position 4 of the write-PWM request is the requested
\* value modulo 256, for an hwmon write (a signed long) and a cooling
\* set-state (an unsigned long): a value in 0..255 goes out as it is, any
\* other value is sent all the same, reduced to its low 8 bits.
C18_DutyIsValueMod256 ==
    \A t \in Callers :
        (Running(t) /\ op[t].fn = "write_pwm_channel") =>
            /\ send_count[t] = 1
            /\ Len(cmd[t]) = 6
            /\ At(cmd[t], 4) \in 0 .. 255
            /\ (At(cmd[t], 4) - op[t].val) % 256 = 0
            /\ op[t].val \in 0 .. 255 => At(cmd[t], 4) = op[t].val

\* An hwmon write of -1 is on the bus with duty 255, or one of 384 with 128.
C18_Witness ==
    \E t \in Callers :
        /\ InExchange(t) /\ op[t].entry = "write" /\ op[t].type = "pwm"
        /\ \/ op[t].val = 0 - 1 /\ At(cmd[t], 4) = 255
           \/ op[t].val = 384 /\ At(cmd[t], 4) = 128

\* C19: during probe every index used to store into the presence vector or
\* to install a cooling record in the context lies in {0,1}: a child whose reg
\* is 2 or more causes no store to thermal_cooling_dev_present[reg] or
\* cdev[reg], and the mutex behind cdev[] keeps a lock word the driver wrote.
C19_IndexInRange ==
    /\ stray = {}
    /\ lock # LockClobbered

Installed(i) == cdev[i] # 0
\* C20: in every state during and after probe, for each PWM index i in
\* {0,1}, thermal_cooling_dev_present[i] is true exactly when a cooling
\* record is installed in cdev[i]; the flag is never true for an index whose
\* child failed to bind, and once true it is never cleared.
C20_PresenceIffInstalled ==
    /\ [](\A i \in PwmIdx : thermal_cooling_dev_present[i] <=> Installed(i))
    /\ [][\A i \in PwmIdx :
            thermal_cooling_dev_present[i] => thermal_cooling_dev_present'[i]]_vars

=============================================================================
